---- MODULE Spec2Model ----
(***************************************************************************)
(* Product-catalog backend (main.py): list_products, list_categories and   *)
(* seed_products over the "product" collection of a document store, with   *)
(* the in-memory SAMPLE_PRODUCTS as fallback of the read paths.            *)
(*                                                                         *)
(* A Python str is a sequence of one-character strings, so that lower(),   *)
(* `in` (substring), str() and sorted() are computed, not assumed.  A dict *)
(* is a function from keys to values; an absent key is absent from its     *)
(* DOMAIN.                                                                 *)
(***************************************************************************)
EXTENDS Integers, Sequences, FiniteSets, TLC

(* Python's None.  No str equals it: every element of a str is one character. *)
None == <<"None">>

(* The handle database.db of a configured store. *)
Database == <<"Database">>

\* ------------------------------------------------------------------ str

UpperCase == <<"A","B","C","D","E","F","G","H","I","J","K","L","M","N","O","P","Q","R","S","T","U","V","W","X","Y","Z">>
LowerCase == <<"a","b","c","d","e","f","g","h","i","j","k","l","m","n","o","p","q","r","s","t","u","v","w","x","y","z">>

(* The printable ASCII characters in code-point order: 32 (space) to 95, *)
(* and 97 to 126.                                                        *)
AsciiLow == <<" ","!","\"","#","$","%","&","'","(",")","*","+",",","-",".","/","0","1","2","3","4","5","6","7","8","9",":",";","<","=",">","?","@","A","B","C","D","E","F","G","H","I","J","K","L","M","N","O","P","Q","R","S","T","U","V","W","X","Y","Z","[","\\","]","^","_">>
AsciiHigh == <<"a","b","c","d","e","f","g","h","i","j","k","l","m","n","o","p","q","r","s","t","u","v","w","x","y","z","{","|","}","~">>

Chars == {AsciiLow[i] : i \in 1..Len(AsciiLow)} \cup {AsciiHigh[i] : i \in 1..Len(AsciiHigh)}

(* The character table of str.lower(): A-Z to a-z, every other character to itself. *)
LowerTable ==
  [c \in Chars |->
     IF \E i \in 1..Len(UpperCase) : UpperCase[i] = c
     THEN LowerCase[CHOOSE i \in 1..Len(UpperCase) : UpperCase[i] = c]
     ELSE c]

(* str.lower() *)
lower(s) == [i \in 1..Len(s) |-> LowerTable[s[i]]]

(* sub in s *)
Contains(s, sub) ==
  \E i \in 0..(Len(s) - Len(sub)) : SubSeq(s, i + 1, i + Len(sub)) = sub

(* ord(c) *)
Ord ==
  [c \in Chars |->
     IF \E i \in 1..Len(AsciiLow) : AsciiLow[i] = c
     THEN 31 + (CHOOSE i \in 1..Len(AsciiLow) : AsciiLow[i] = c)
     ELSE 96 + (CHOOSE i \in 1..Len(AsciiHigh) : AsciiHigh[i] = c)]

(* a < b on str: lexicographic by code point *)
RECURSIVE StrLess(_, _)
StrLess(a, b) ==
  IF b = <<>> THEN FALSE
  ELSE IF a = <<>> THEN TRUE
  ELSE IF Ord[Head(a)] # Ord[Head(b)] THEN Ord[Head(a)] < Ord[Head(b)]
  ELSE StrLess(Tail(a), Tail(b))

(* sorted(S) of a set of str *)
RECURSIVE sorted(_)
sorted(S) ==
  IF S = {} THEN <<>>
  ELSE LET m == CHOOSE x \in S : \A y \in S \ {x} : StrLess(x, y)
       IN <<m>> \o sorted(S \ {m})

Digits == <<"0","1","2","3","4","5","6","7","8","9">>

(* str(n) of a store identifier *)
RECURSIVE str(_)
str(n) == IF n < 10 THEN <<Digits[n + 1]>> ELSE str(n \div 10) \o <<Digits[(n % 10) + 1]>>

(* d.get(key, default) *)
Get(d, key, default) == IF key \in DOMAIN d THEN d[key] ELSE default

\* ------------------------------------------------------ SAMPLE_PRODUCTS

(* price in cents and rating in tenths; image is an opaque URL *)
SampleCatalog == <<
  [title |-> <<"W","i","r","e","l","e","s","s"," ","N","o","i","s","e"," ","C","a","n","c","e","l","l","i","n","g"," ","H","e","a","d","p","h","o","n","e","s">>,
   description |-> <<"O","v","e","r","-","e","a","r"," ","B","l","u","e","t","o","o","t","h"," ","h","e","a","d","p","h","o","n","e","s"," ","w","i","t","h"," ","3","0","h"," ","b","a","t","t","e","r","y"," ","a","n","d"," ","A","N","C",".">>,
   price |-> 12999, category |-> <<"E","l","e","c","t","r","o","n","i","c","s">>, in_stock |-> TRUE,
   image |-> "photo-1518443885661-7a08f0f64f32", rating |-> 46],
  [title |-> <<"S","t","a","i","n","l","e","s","s"," ","S","t","e","e","l"," ","W","a","t","e","r"," ","B","o","t","t","l","e">>,
   description |-> <<"I","n","s","u","l","a","t","e","d"," ","3","2","o","z"," ","b","o","t","t","l","e"," ","k","e","e","p","s"," ","d","r","i","n","k","s"," ","c","o","l","d"," ","f","o","r"," ","2","4","h",".">>,
   price |-> 2495, category |-> <<"H","o","m","e">>, in_stock |-> TRUE,
   image |-> "photo-1517705008128-361805f42e86", rating |-> 44],
  [title |-> <<"E","r","g","o","n","o","m","i","c"," ","O","f","f","i","c","e"," ","C","h","a","i","r">>,
   description |-> <<"A","d","j","u","s","t","a","b","l","e"," ","l","u","m","b","a","r"," ","s","u","p","p","o","r","t",","," ","b","r","e","a","t","h","a","b","l","e"," ","m","e","s","h"," ","b","a","c","k",".">>,
   price |-> 19900, category |-> <<"F","u","r","n","i","t","u","r","e">>, in_stock |-> TRUE,
   image |-> "photo-1582582429416-cfecfc0a0bdf", rating |-> 43],
  [title |-> <<"4","K"," ","U","H","D"," ","S","m","a","r","t"," ","T","V"," ","5","5","\"">>,
   description |-> <<"U","l","t","r","a"," ","H","D",","," ","H","D","R",","," ","b","u","i","l","t","-","i","n"," ","s","t","r","e","a","m","i","n","g"," ","a","p","p","s",".">>,
   price |-> 42900, category |-> <<"E","l","e","c","t","r","o","n","i","c","s">>, in_stock |-> TRUE,
   image |-> "photo-1587300003388-59208cc962cb", rating |-> 45],
  [title |-> <<"N","o","n","-","S","t","i","c","k"," ","C","o","o","k","w","a","r","e"," ","S","e","t"," ","(","1","0"," ","p","c","s",")">>,
   description |-> <<"D","u","r","a","b","l","e",","," ","P","F","O","A","-","f","r","e","e"," ","n","o","n","-","s","t","i","c","k"," ","w","i","t","h"," ","g","l","a","s","s"," ","l","i","d","s",".">>,
   price |-> 8999, category |-> <<"K","i","t","c","h","e","n">>, in_stock |-> TRUE,
   image |-> "photo-1544025162-d76694265947", rating |-> 42],
  [title |-> <<"R","u","n","n","i","n","g"," ","S","h","o","e","s">>,
   description |-> <<"L","i","g","h","t","w","e","i","g","h","t",","," ","b","r","e","a","t","h","a","b","l","e",","," ","e","v","e","r","y","d","a","y"," ","t","r","a","i","n","e","r","s",".">>,
   price |-> 5999, category |-> <<"F","a","s","h","i","o","n">>, in_stock |-> TRUE,
   image |-> "photo-1542291026-7eec264c27ff", rating |-> 41]
>>

\* --------------------------------------------------------------- inputs

(* Records an external writer may have left in the collection: one without *)
(* category and description, one with a null description and a lower-case  *)
(* category, one carrying a Sample Catalog title, one without a title.     *)
ExternalRecords == {
  [title |-> <<"D","e","s","k"," ","L","a","m","p">>, price |-> 1500],
  [title |-> <<"B","o","t","t","l","e"," ","O","p","e","n","e","r">>, description |-> None, category |-> <<"h","o","m","e">>, price |-> 500],
  [title |-> <<"S","t","a","i","n","l","e","s","s"," ","S","t","e","e","l"," ","W","a","t","e","r"," ","B","o","t","t","l","e">>, description |-> <<"O","l","d"," ","s","t","o","c","k",".">>,
   category |-> <<"H","o","m","e">>, price |-> 2000],
  [description |-> <<"W","a","l","l"," ","m","o","u","n","t"," ","f","o","r"," ","a"," ","T","V">>, category |-> <<"E","L","E","C","T","R","O","N","I","C","S">>, price |-> 3000]
}

(* Most records in the collection before the first request. *)
MaxInit == 1

(* The category and q arguments of list_products. *)
Categories == {None, <<>>, <<"E","l","e","c","t","r","o","n","i","c","s">>, <<"e","l","e","c","t","r","o","n","i","c","s">>, <<"E","L","E","C","T","R","O","N","I","C","S">>, <<"H","o","m","e">>, <<"T","o","y","s">>}
Queries == {None, <<>>, <<"b","o","t","t","l","e">>, <<"B","O","T","T","L","E">>, <<"t","v">>, <<"S","t","e","e","l">>, <<"z","z","z">>}

(* The workers that run seed requests side by side, and the most seed *)
(* requests started in all.                                          *)
Seeders == {1, 2}
MaxSeedCalls == 2

VARIABLES
  db,               \* database.db: None when no store is configured
  store,            \* the "product" collection, in insertion order
  SAMPLE_PRODUCTS,  \* the module-level list
  call,             \* the last request handled as a whole, with what the store did
  resp,             \* its response
  pc,               \* per concurrent seed request: where seed_products stands
  existing_titles,  \* per concurrent seed request: the local existing_titles
  idx,              \* per concurrent seed request: position of the for loop
  inserted,         \* per concurrent seed request: the local inserted
  sresp,            \* per concurrent seed request: its response
  calls,            \* seed requests started so far
  overlapped        \* history: some seed request read the titles while another was in its loop

vars == <<db, store, SAMPLE_PRODUCTS, call, resp, pc, existing_titles, idx, inserted, sresp, calls, overlapped>>
seedvars == <<pc, existing_titles, idx, inserted, sresp, calls, overlapped>>

\* ------------------------------------------------- Document Store Adapter

(* The collections the service may start with: distinct external records, *)
(* each under its store-assigned identifier.                               *)
InitStores ==
  LET Seqs == UNION {[1..n -> ExternalRecords] : n \in 0..MaxInit}
      Distinct(s) == \A i, j \in DOMAIN s : i # j => s[i] # s[j]
  IN {[i \in DOMAIN s |-> ("_id" :> i) @@ s[i]] : s \in {t \in Seqs : Distinct(t)}}

(* get_documents("product"): what one read of the collection does.  It     *)
(* raises when no store is configured; on a configured store it delivers   *)
(* every record, or raises after delivering the first k of them.           *)
get_documents(d, st) ==
  IF d = None
  THEN {[raised |-> TRUE, docs |-> <<>>]}
  ELSE {[raised |-> FALSE, docs |-> st]}
         \cup {[raised |-> TRUE, docs |-> SubSeq(st, 1, k)] : k \in 0..Len(st)}

(* list(db["product"].find({}, {"title": 1})): all or nothing; subscripting *)
(* None raises.                                                             *)
find_titles(d, st) ==
  IF d = None
  THEN {[raised |-> TRUE, docs |-> <<>>]}
  ELSE {[raised |-> FALSE, docs |-> st], [raised |-> TRUE, docs |-> <<>>]}

(* Mutant: the record is put in front of the collection. *)
create_document_front(st, p) == <<("_id" :> (Len(st) + 1)) @@ p>> \o st

(* create_document("product", the ProductSchema of p): the record is appended *)
(* under a fresh identifier.                                               *)
create_document(st, p) == Append(st, ("_id" :> (Len(st) + 1)) @@ p)

\* --------------------------------------------------------- list_products

(* d["id"] = str(d.get("_id")) *)
Annotate(d) == ("id" :> str(d["_id"])) @@ d

(* Mutant: the except branch adds the Sample Catalog to what was fetched. *)
FetchItems_keep(fetch, sample) ==
  LET fetched == [i \in 1..Len(fetch.docs) |-> Annotate(fetch.docs[i])]
  IN IF fetch.raised THEN fetched \o sample ELSE fetched

(* Mutant: an empty read falls back as well. *)
FetchItems_empty(fetch, sample) ==
  IF fetch.raised \/ fetch.docs = <<>>
  THEN sample
  ELSE [i \in 1..Len(fetch.docs) |-> Annotate(fetch.docs[i])]

(* The try/except: items after the read. *)
FetchItems(fetch, sample) ==
  IF fetch.raised
  THEN sample
  ELSE [i \in 1..Len(fetch.docs) |-> Annotate(fetch.docs[i])]

(* A Python condition on an Optional[str]: None and "" are falsy. *)
Truthy(s) == s # None /\ s # <<>>

(* Mutant: the argument is compared as given. *)
FilterCategory_asgiven(items, category) ==
  SelectSeq(items, LAMBDA p : lower(Get(p, "category", <<>>)) = category)

(* [p for p in items if p.get("category", "").lower() == category.lower()] *)
FilterCategory(items, category) ==
  SelectSeq(items, LAMBDA p : lower(Get(p, "category", <<>>)) = lower(category))

(* p.get("description") or "" *)
DescriptionOf(p) ==
  LET d == Get(p, "description", None) IN IF d = None THEN <<>> ELSE d

(* Mutant: only the title is searched. *)
FilterQuery_title(items, q) ==
  LET ql == lower(q)
  IN SelectSeq(items, LAMBDA p : Contains(lower(Get(p, "title", <<>>)), ql))

(* [p for p in items if ql in title.lower() or ql in description.lower()] *)
FilterQuery(items, q) ==
  LET ql == lower(q)
  IN SelectSeq(items, LAMBDA p : \/ Contains(lower(Get(p, "title", <<>>)), ql)
                                 \/ Contains(lower(DescriptionOf(p)), ql))

ListProductsResponse(category, q, fetch, sample) ==
  LET items0 == FetchItems(fetch, sample)
      items1 == IF Truthy(category) THEN FilterCategory(items0, category) ELSE items0
      items2 == IF Truthy(q) THEN FilterQuery(items1, q) ELSE items1
  IN [status |-> "ok", items |-> items2, count |-> Len(items2)]

(* Mutant: the id is written after the try/except, on the items at hand; *)
(* after a fallback these are the records of SAMPLE_PRODUCTS themselves, *)
(* which the copy of the list shares.                                    *)
list_products_shared ==
  /\ resp.status = "none"
  /\ \E category \in Categories, q \in Queries, fetch \in get_documents(db, store) :
       LET mark(p) == ("id" :> Get(p, "_id", None)) @@ p
           marked == [i \in 1..Len(SAMPLE_PRODUCTS) |-> mark(SAMPLE_PRODUCTS[i])]
       IN /\ call' = [op |-> "list_products", category |-> category, q |-> q, fetch |-> fetch]
          /\ SAMPLE_PRODUCTS' = IF fetch.raised THEN marked ELSE SAMPLE_PRODUCTS
          /\ resp' = ListProductsResponse(category, q, fetch, SAMPLE_PRODUCTS')
          /\ UNCHANGED <<db, store, seedvars>>

list_products ==
  /\ resp.status = "none"
  /\ \E category \in Categories, q \in Queries, fetch \in get_documents(db, store) :
       /\ call' = [op |-> "list_products", category |-> category, q |-> q, fetch |-> fetch]
       /\ resp' = ListProductsResponse(category, q, fetch, SAMPLE_PRODUCTS)
       /\ UNCHANGED <<db, store, SAMPLE_PRODUCTS, seedvars>>

\* ------------------------------------------------------- list_categories

(* Mutant: a record without category counts as "". *)
CategorySet_blank(docs) == {Get(docs[i], "category", <<>>) : i \in 1..Len(docs)}

(* {d.get("category", "Misc") for d in docs} *)
CategorySet(docs) == {Get(docs[i], "category", <<"M","i","s","c">>) : i \in 1..Len(docs)}

(* Mutant: no except branch. *)
ListCategoriesResponse_raise(fetch, sample) ==
  LET cats == sorted(CategorySet(fetch.docs))
  IN IF fetch.raised \/ cats = <<>>
     THEN [status |-> "exception"]
     ELSE [status |-> "ok", items |-> cats]

ListCategoriesResponse(fetch, sample) ==
  LET cats == sorted(CategorySet(fetch.docs))
  IN IF fetch.raised \/ cats = <<>>
     THEN [status |-> "ok", items |-> sorted({sample[i].category : i \in 1..Len(sample)})]
     ELSE [status |-> "ok", items |-> cats]

list_categories ==
  /\ resp.status = "none"
  /\ \E fetch \in get_documents(db, store) :
       /\ call' = [op |-> "list_categories", fetch |-> fetch]
       /\ resp' = ListCategoriesResponse(fetch, SAMPLE_PRODUCTS)
       /\ UNCHANGED <<db, store, SAMPLE_PRODUCTS, seedvars>>

\* --------------------------------------------------------- seed_products

(* Mutant: the guard is missing. *)
NotConfigured_never(d) == FALSE

(* if db is None *)
NotConfigured(d) == d = None

(* Mutant: the titles read are dropped. *)
ExistingTitles_none(existing) == {}

(* {e.get("title") for e in existing} *)
ExistingTitles(existing) == {Get(existing[i], "title", None) : i \in 1..Len(existing)}

(* Mutant: every record counts as new. *)
IsNew_always(p, titles) == TRUE

(* if p["title"] not in existing_titles *)
IsNew(p, titles) == p.title \notin titles

(* The for loop from position i on.  failAt = k > 0: the k-th call of      *)
(* create_document raises, and the exception leaves the handler.           *)
RECURSIVE SeedLoop(_, _, _, _, _, _)
SeedLoop(st, sample, titles, i, ins, failAt) ==
  IF i > Len(sample)
  THEN [store |-> st, inserted |-> ins, raised |-> FALSE]
  ELSE IF IsNew(sample[i], titles)
       THEN IF ins + 1 = failAt
            THEN [store |-> st, inserted |-> ins, raised |-> TRUE]
            ELSE SeedLoop(create_document(st, sample[i]), sample, titles, i + 1, ins + 1, failAt)
       ELSE SeedLoop(st, sample, titles, i + 1, ins, failAt)

(* The handler as a whole, run without another seed request in between. *)
seed_products ==
  /\ resp.status = "none"
  /\ UNCHANGED <<db, SAMPLE_PRODUCTS, seedvars>>
  /\ IF NotConfigured(db)
     THEN /\ call' = [op |-> "seed", read |-> "none", failAt |-> 0]
          /\ resp' = [status |-> "503", detail |-> "Database not configured"]
          /\ UNCHANGED store
     ELSE \E existing \in find_titles(db, store), failAt \in 0..Len(SAMPLE_PRODUCTS) :
            IF existing.raised
            THEN /\ call' = [op |-> "seed", read |-> "raised", failAt |-> 0]
                 /\ resp' = [status |-> "exception"]
                 /\ UNCHANGED store
            ELSE LET r == SeedLoop(store, SAMPLE_PRODUCTS, ExistingTitles(existing.docs), 1, 0, failAt)
                 IN /\ call' = [op |-> "seed", read |-> "ok",
                                failAt |-> IF r.raised THEN failAt ELSE 0]
                    /\ store' = r.store
                    /\ resp' = IF r.raised
                               THEN [status |-> "exception"]
                               ELSE [status |-> "ok", inserted |-> r.inserted]

(* The response leaves the service, which then takes the next request. *)
Respond ==
  /\ resp.status # "none"
  /\ call' = [op |-> "none"]
  /\ resp' = [status |-> "none"]
  /\ UNCHANGED <<db, store, SAMPLE_PRODUCTS, seedvars>>

\* ------------------------------- seed_products, one store call at a time

(* The position of the first record from i on that the loop creates, or *)
(* Len(sample) + 1 when it creates none: the iterations in between      *)
(* touch nothing outside the handler.                                   *)
RECURSIVE NextNew(_, _, _)
NextNew(sample, titles, i) ==
  IF i > Len(sample) \/ IsNew(sample[i], titles) THEN i ELSE NextNew(sample, titles, i + 1)

(* A worker is free before its first request and after its last response. *)
Free(s) == pc[s] \in {"idle", "done"}

(* The request goes to the first free worker; the handler runs up to and *)
(* including the read of the existing titles.                            *)
SeedBegin(s) ==
  /\ Free(s)
  /\ \A o \in Seeders : Free(o) => s <= o
  /\ calls < MaxSeedCalls
  /\ calls' = calls + 1
  /\ UNCHANGED <<db, store, SAMPLE_PRODUCTS, call, resp>>
  /\ IF NotConfigured(db)
     THEN /\ pc' = [pc EXCEPT ![s] = "done"]
          /\ sresp' = [sresp EXCEPT ![s] = [status |-> "503", detail |-> "Database not configured"]]
          /\ existing_titles' = [existing_titles EXCEPT ![s] = {}]
          /\ idx' = [idx EXCEPT ![s] = 0]
          /\ inserted' = [inserted EXCEPT ![s] = 0]
          /\ UNCHANGED overlapped
     ELSE \E existing \in find_titles(db, store) :
            IF existing.raised
            THEN /\ pc' = [pc EXCEPT ![s] = "done"]
                 /\ sresp' = [sresp EXCEPT ![s] = [status |-> "exception"]]
                 /\ existing_titles' = [existing_titles EXCEPT ![s] = {}]
                 /\ idx' = [idx EXCEPT ![s] = 0]
                 /\ inserted' = [inserted EXCEPT ![s] = 0]
                 /\ UNCHANGED overlapped
            ELSE /\ pc' = [pc EXCEPT ![s] = "loop"]
                 /\ existing_titles' = [existing_titles EXCEPT ![s] = ExistingTitles(existing.docs)]
                 /\ idx' = [idx EXCEPT ![s] = NextNew(SAMPLE_PRODUCTS, ExistingTitles(existing.docs), 1)]
                 /\ inserted' = [inserted EXCEPT ![s] = 0]
                 /\ sresp' = [sresp EXCEPT ![s] = [status |-> "none"]]
                 /\ overlapped' = (overlapped \/ \E o \in Seeders \ {s} : pc[o] = "loop")

(* The next call of create_document, which appends the record or raises. *)
SeedCreate(s) ==
  /\ pc[s] = "loop"
  /\ idx[s] <= Len(SAMPLE_PRODUCTS)
  /\ UNCHANGED <<db, SAMPLE_PRODUCTS, call, resp, existing_titles, calls, overlapped>>
  /\ \/ /\ store' = create_document(store, SAMPLE_PRODUCTS[idx[s]])
        /\ inserted' = [inserted EXCEPT ![s] = @ + 1]
        /\ idx' = [idx EXCEPT ![s] = NextNew(SAMPLE_PRODUCTS, existing_titles[s], idx[s] + 1)]
        /\ UNCHANGED <<pc, sresp>>
     \/ /\ pc' = [pc EXCEPT ![s] = "done"]
        /\ sresp' = [sresp EXCEPT ![s] = [status |-> "exception"]]
        /\ UNCHANGED <<store, inserted, idx>>

(* return {"inserted": inserted} *)
SeedReturn(s) ==
  /\ pc[s] = "loop"
  /\ idx[s] > Len(SAMPLE_PRODUCTS)
  /\ pc' = [pc EXCEPT ![s] = "done"]
  /\ sresp' = [sresp EXCEPT ![s] = [status |-> "ok", inserted |-> inserted[s]]]
  /\ UNCHANGED <<db, store, SAMPLE_PRODUCTS, call, resp, existing_titles, idx, inserted, calls, overlapped>>

\* ------------------------------------------------------- specifications

Init ==
  /\ db \in {None, Database}
  /\ store \in (IF db = None THEN {<<>>} ELSE InitStores)
  /\ SAMPLE_PRODUCTS = SampleCatalog
  /\ call = [op |-> "none"]
  /\ resp = [status |-> "none"]
  /\ pc = [s \in Seeders |-> "idle"]
  /\ existing_titles = [s \in Seeders |-> {}]
  /\ idx = [s \in Seeders |-> 0]
  /\ inserted = [s \in Seeders |-> 0]
  /\ sresp = [s \in Seeders |-> [status |-> "none"]]
  /\ calls = 0
  /\ overlapped = FALSE

(* Requests handled one at a time. *)
Next ==
  \/ list_products
  \/ list_categories
  \/ seed_products
  \/ Respond

Spec == Init /\ [][Next]_vars

(* Seed requests whose store calls interleave. *)
NextConc ==
  \E s \in Seeders :
    \/ SeedBegin(s)
    \/ SeedCreate(s)
    \/ SeedReturn(s)

SpecConc == Init /\ [][NextConc]_vars

\* --------------------------------------------------------------- claims

(* A record as the caller sees it, without the derived id. *)
Strip(p) == [k \in DOMAIN p \ {"id"} |-> p[k]]

(* The records of src that satisfy Keep, in the order of src. *)
Select(src, Keep(_)) ==
  LET kept == {i \in 1..Len(src) : Keep(src[i])}
      nth(k) == CHOOSE i \in kept : Cardinality({j \in kept : j < i}) = k - 1
  IN [k \in 1..Cardinality(kept) |-> src[nth(k)]]

CategoryMatches(p, category) == lower(Get(p, "category", <<>>)) = lower(category)

QueryMatches(p, q) ==
  \/ Contains(lower(Get(p, "title", <<>>)), lower(q))
  \/ Contains(lower(IF Get(p, "description", None) = None THEN <<>> ELSE p.description), lower(q))

(* The filtered source when a filter counts as provided unless it is None or "". *)
Filtered(src, category, q) ==
  LET Keep(p) == /\ (category # None /\ category # <<>>) => CategoryMatches(p, category)
                 /\ (q # None /\ q # <<>>) => QueryMatches(p, q)
  IN Select(src, Keep)

(* The filtered source when a filter counts as provided unless it is None. *)
FilteredIfGiven(src, category, q) ==
  LET Keep(p) == /\ category # None => CategoryMatches(p, category)
                 /\ q # None => QueryMatches(p, q)
  IN Select(src, Keep)

Listed == call.op = "list_products"

(* What the caller received, without the derived ids. *)
StrippedItems == [i \in 1..Len(resp.items) |-> Strip(resp.items[i])]

(* The source of the last list_products call: the collection, or the *)
(* Sample Catalog when the read raised.                               *)
SourceRecords == IF call.fetch.raised THEN SampleCatalog ELSE store

(* C1: when the read of the collection raises during list_products, at   *)
(* whatever point, the call still answers, with the filtered Sample      *)
(* Catalog and with none of the records fetched before the failure.      *)
C1_FallbackOnFailure ==
  (Listed /\ call.fetch.raised) =>
     /\ resp.status = "ok"
     /\ resp.items = Filtered(SampleCatalog, call.category, call.q)
     /\ resp.count = Len(resp.items)
     /\ \A i \in 1..Len(resp.items) :
          "id" \notin DOMAIN resp.items[i] /\ "_id" \notin DOMAIN resp.items[i]

(* The read raised after it had delivered a record, and the answer is not empty. *)
C1_Witness ==
  /\ Listed /\ call.fetch.raised
  /\ Len(call.fetch.docs) > 0
  /\ resp.count > 0

(* C2 as stated: list_products returns the source records that match the *)
(* category and q given, in source order, where a filter removes nothing *)
(* only when it is not given.                                            *)
C2_FilterIfGiven ==
  Listed =>
     /\ StrippedItems = FilteredIfGiven(SourceRecords, call.category, call.q)
     /\ resp.count = Len(resp.items)

(* C2, amended: list_products returns the source records that match the *)
(* category and q given, in source order, where a filter that is not    *)
(* given or is the empty string removes nothing; count is the length.   *)
C2_FilterSemantics ==
  Listed =>
     /\ StrippedItems = Filtered(SourceRecords, call.category, call.q)
     /\ resp.count = Len(resp.items)

(* Both filters given on a read that succeeded, and they keep some but not all records. *)
C2_Witness ==
  /\ Listed /\ ~call.fetch.raised
  /\ call.category \notin {None, <<>>} /\ call.q \notin {None, <<>>}
  /\ 0 < resp.count /\ resp.count < Len(store)

TitlesIn(st) == {Get(st[i], "title", None) : i \in 1..Len(st)}

(* The Sample Catalog records whose title is not in st. *)
Missing(st) ==
  LET Keep(p) == p.title \notin TitlesIn(st) IN Select(SampleCatalog, Keep)

(* C3: a seed that returns has appended to the collection, in Sample     *)
(* Catalog order, exactly the Sample Catalog records whose title the     *)
(* collection did not hold, and returns their number: 6 on an empty      *)
(* collection, after which nothing is missing and a second seed adds 0.  *)
C3_SeedInsertsMissing ==
  [][(seed_products /\ resp'.status = "ok") =>
       LET new == Missing(store)
       IN /\ Len(store') = Len(store) + Len(new)
          /\ SubSeq(store', 1, Len(store)) = store
          /\ \A i \in 1..Len(new) :
               [k \in DOMAIN store'[Len(store) + i] \ {"_id"} |-> store'[Len(store) + i][k]] = new[i]
          /\ resp'.inserted = Len(new)
          /\ store = <<>> => resp'.inserted = 6
          /\ Missing(store') = <<>>]_vars

(* A seed returned 0 on the collection a seed of the empty store left. *)
C3_Witness ==
  /\ call.op = "seed" /\ resp.status = "ok" /\ resp.inserted = 0
  /\ Len(store) = 6
  /\ \A i \in 1..6 : [k \in DOMAIN store[i] \ {"_id"} |-> store[i][k]] = SampleCatalog[i]

(* C4: without a configured store seed answers 503, writes nothing and *)
(* returns neither a count nor Sample Catalog records.                 *)
C4_SeedUnavailable ==
  (call.op = "seed" /\ db = None) =>
     /\ resp.status = "503"
     /\ "inserted" \notin DOMAIN resp /\ "items" \notin DOMAIN resp
     /\ store = <<>>

C4_Witness == call.op = "seed" /\ db = None /\ resp.status = "503"

WellFormed ==
  /\ call.op = "list_products" =>
       resp.status = "ok" /\ resp.count = Len(resp.items) /\ resp.count \in Nat
  /\ call.op = "list_categories" =>
       resp.status = "ok" /\ Len(resp.items) \in Nat

(* C5 as stated: the reads always answer, and seed reports a failure *)
(* only when no store is configured.                                 *)
C5_OnlyUnconfiguredFails ==
  /\ WellFormed
  /\ call.op = "seed" => IF db = None THEN resp.status = "503" ELSE resp.status = "ok"

(* C5, amended: the reads always answer; seed answers 503 exactly when   *)
(* no store is configured, and on a configured store it returns a count  *)
(* unless the title read or a create call raises, in which case that     *)
(* exception reaches the caller.                                         *)
C5_FailureSurfaces ==
  /\ WellFormed
  /\ call.op = "seed" =>
       /\ resp.status = "503" <=> db = None
       /\ resp.status = "exception" <=> (db # None /\ (call.read = "raised" \/ call.failAt > 0))
       /\ resp.status = "ok" <=> (db # None /\ call.read = "ok" /\ call.failAt = 0)
       /\ resp.status = "ok" => resp.inserted \in 0..Len(SampleCatalog)

(* A create call raised on a configured store after an earlier one had written. *)
C5_Witness ==
  /\ call.op = "seed" /\ db # None
  /\ call.failAt > 1
  /\ resp.status = "exception"

SampleCategories == <<<<"E","l","e","c","t","r","o","n","i","c","s">>, <<"F","a","s","h","i","o","n">>, <<"F","u","r","n","i","t","u","r","e">>, <<"H","o","m","e">>, <<"K","i","t","c","h","e","n">>>>

(* C6: list_categories returns the distinct categories of the stored     *)
(* records ("Misc" for a record without one) in ascending order, and the *)
(* five Sample Catalog categories when the read raised or gave none;     *)
(* never an empty list, never an error.                                  *)
C6_Categories ==
  call.op = "list_categories" =>
     LET cats == {Get(store[i], "category", <<"M","i","s","c">>) : i \in 1..Len(store)}
         usable == ~call.fetch.raised /\ cats # {}
     IN /\ resp.status = "ok"
        /\ resp.items # <<>>
        /\ \A i, j \in 1..Len(resp.items) : i < j => StrLess(resp.items[i], resp.items[j])
        /\ usable => {resp.items[i] : i \in 1..Len(resp.items)} = cats
        /\ ~usable => resp.items = SampleCategories

(* The stored categories were listed, "Misc" for a record without one among them. *)
C6_Witness ==
  /\ call.op = "list_categories" /\ ~call.fetch.raised
  /\ \E i \in 1..Len(store) : "category" \notin DOMAIN store[i]
  /\ \E i \in 1..Len(resp.items) : resp.items[i] = <<"M","i","s","c">>
  /\ Len(resp.items) > 2

(* C7: in list_products an empty outcome is not a fallback trigger: when *)
(* the read succeeded every item is a stored record, so an empty         *)
(* collection or filters that remove everything give items = [] and      *)
(* count = 0; Sample Catalog records appear only when the read raised.   *)
C7_EmptyIsNotFallback ==
  Listed =>
     /\ ~call.fetch.raised =>
          /\ \A i \in 1..Len(resp.items) : \E j \in 1..Len(store) : Strip(resp.items[i]) = store[j]
          /\ store = <<>> => (resp.items = <<>> /\ resp.count = 0)
          /\ Filtered(store, call.category, call.q) = <<>> => (resp.items = <<>> /\ resp.count = 0)
     /\ (\E i \in 1..Len(resp.items) : "id" \notin DOMAIN resp.items[i]) => call.fetch.raised

(* The read of a configured, empty collection succeeded. *)
C7_Witness ==
  /\ Listed /\ db # None /\ ~call.fetch.raised
  /\ store = <<>>
  /\ resp.items = <<>> /\ resp.count = 0

(* The same string up to letter case; None is only itself. *)
SameLetters(a, b) == IF a = None \/ b = None THEN a = b ELSE lower(a) = lower(b)

(* The query filter first, the category filter second. *)
QueryThenCategory(items, category, q) ==
  LET a == IF Truthy(q) THEN FilterQuery(items, q) ELSE items
  IN IF Truthy(category) THEN FilterCategory(a, category) ELSE a

(* C8: the items are those of the query filter applied before the        *)
(* category filter, and any other letter case of category or q gives the *)
(* same items.                                                           *)
C8_CommutesAndIgnoresCase ==
  Listed =>
     /\ resp.items = QueryThenCategory(FetchItems(call.fetch, SAMPLE_PRODUCTS), call.category, call.q)
     /\ \A c \in Categories, q \in Queries :
          (SameLetters(c, call.category) /\ SameLetters(q, call.q)) =>
             ListProductsResponse(c, q, call.fetch, SAMPLE_PRODUCTS).items = resp.items

(* Both filters given in a letter case no record has, and records are kept. *)
C8_Witness ==
  /\ Listed
  /\ call.category = <<"E","L","E","C","T","R","O","N","I","C","S">> /\ call.q = <<"t","v">>
  /\ resp.count > 0
  /\ \A i \in 1..Len(resp.items) : resp.items[i].category # call.category

SampleTitles == {SampleCatalog[i].title : i \in 1..Len(SampleCatalog)}

NoDuplicateSampleTitle ==
  \A i, j \in 1..Len(store) :
     (i # j /\ Get(store[i], "title", None) = Get(store[j], "title", None))
        => Get(store[i], "title", None) \notin SampleTitles

(* C9 as stated: whatever the interleaving of the seed requests, the *)
(* collection never holds two records with one Sample Catalog title. *)
C9_NeverDuplicated == NoDuplicateSampleTitle

(* C9, amended: as long as no seed request has read the existing titles *)
(* while another was between its own title read and its return, the     *)
(* collection holds no two records with one Sample Catalog title.       *)
C9_NoDuplicateUnlessOverlapped == ~overlapped => NoDuplicateSampleTitle

(* Two seed requests ran one after the other; the second returned 0. *)
C9_Witness ==
  /\ ~overlapped /\ calls = 2
  /\ pc[1] = "done" /\ pc[2] = "idle"
  /\ sresp[1] = [status |-> "ok", inserted |-> 0]
  /\ SampleTitles \subseteq TitlesIn(store)

(* C10: no request changes the Sample Catalog, whose records carry no    *)
(* id; list_products and list_categories leave the collection as it is;  *)
(* the collection changes only by a seed on a configured store, and only *)
(* by records added after those it holds.                                *)
C10_Frame ==
  [][/\ SAMPLE_PRODUCTS' = SampleCatalog
     /\ \A i \in 1..Len(SAMPLE_PRODUCTS') : "id" \notin DOMAIN SAMPLE_PRODUCTS'[i]
     /\ (list_products \/ list_categories) => store' = store
     /\ store' # store => (seed_products /\ db # None)
     /\ Len(store') >= Len(store)
     /\ SubSeq(store', 1, Len(store)) = store]_vars

(* A seed added records to a collection that held one. *)
C10_Witness ==
  /\ call.op = "seed" /\ resp.status = "ok" /\ resp.inserted > 0
  /\ Len(store) > resp.inserted
  /\ SAMPLE_PRODUCTS = SampleCatalog

====
